---- MODULE Spec2Model ----
\* A model of package goappfsx (src/goappfsx.go): the directory resolvers
\* ExeDir and AppDataDir, and the open / read / write wrappers built on them,
\* running against a small POSIX-style file system.
\*
\* Go strings that the code takes apart (os.Args[0], the path supplement) are
\* sequences of one-character strings; a cleaned absolute path is the sequence
\* of its segments, <<"cfg", "Local", "app">> for /cfg/Local/app.
EXTENDS Integers, Sequences, FiniteSets, TLC

VARIABLES
    dirs,         \* directories of the file system: path -> owner permission bits
    files,        \* regular files: path -> content (a sequence of bytes)
    handles,      \* file handles that WriteFile* opened and has not closed
    last,         \* the most recent call: its arguments and everything it returned
    cats,         \* the data categories the program stores its files under
    argv0,        \* os.Args[0]
    exeOK,        \* os.Executable() succeeds
    cfgOK,        \* os.UserConfigDir() succeeds
    permEnforced  \* the platform enforces directory permission bits (an unprivileged POSIX process)

vars == <<dirs, files, handles, last, cats, argv0, exeOK, cfgOK, permEnforced>>
env  == <<cats, argv0, exeOK, cfgOK, permEnforced>>

----------------------------------------------------------------------------
\* Bounds of the model.

MaxNameLen   == 3      \* longest os.Args[0] enumerated by SpecPath
DiskCapacity == 2      \* bytes the file system can hold in total

Chars     == {"a", ".", "/"}
Data      == {<<1, 2>>, <<3>>}
Fragments == {<<"f">>, <<"s", "/", "f">>, <<>>}

----------------------------------------------------------------------------
\* DataCategory (goappfsx.go:15-28).

StringShifted(dc) == <<"", "Local", "Local", "Roaming">>[dc + 1]

None     == 0
Local    == 1
LocalLow == 2
Roaming  == 3
DataCategory == {None, Local, LocalLow, Roaming}

categories == <<"", "Local", "LocalLow", "Roaming">>

String(dc) == categories[dc + 1]

----------------------------------------------------------------------------
\* Package path, as the code uses it.

RECURSIVE Str(_)
Str(s) == IF s = <<>> THEN "" ELSE Head(s) \o Str(Tail(s))

RECURSIVE LastIndex(_, _)
\* index of the last c in s, 0 if there is none
LastIndex(s, c) ==
    IF s = <<>> THEN 0
    ELSE IF s[Len(s)] = c THEN Len(s)
    ELSE LastIndex(SubSeq(s, 1, Len(s) - 1), c)

RECURSIVE StripTrailingSlashes(_)
StripTrailingSlashes(s) ==
    IF s # <<>> /\ s[Len(s)] = "/"
    THEN StripTrailingSlashes(SubSeq(s, 1, Len(s) - 1))
    ELSE s

\* path.Base
Base(s) ==
    IF s = <<>> THEN <<".">>
    ELSE LET t == StripTrailingSlashes(s)
             u == SubSeq(t, LastIndex(t, "/") + 1, Len(t))
         IN  IF u = <<>> THEN <<"/">> ELSE u

\* path.Ext: the suffix from the final dot of the final slash-separated element
Ext(s) ==
    LET d == LastIndex(s, ".")
    IN  IF d > LastIndex(s, "/") THEN SubSeq(s, d, Len(s)) ELSE <<>>

RECURSIVE SplitSlash(_)
\* the slash-separated elements of a string, empty ones included
SplitSlash(s) ==
    IF \E i \in 1..Len(s) : s[i] = "/"
    THEN LET i == CHOOSE k \in 1..Len(s) :
                      s[k] = "/" /\ \A j \in 1..(k - 1) : s[j] # "/"
         IN  <<Str(SubSeq(s, 1, i - 1))>> \o SplitSlash(SubSeq(s, i + 1, Len(s)))
    ELSE <<Str(s)>>

RECURSIVE Clean(_, _)
\* path.Clean of a rooted path: acc is the cleaned prefix, rest the raw elements
Clean(acc, rest) ==
    IF rest = <<>> THEN acc
    ELSE LET h == Head(rest)
         IN  IF h = "" \/ h = "." THEN Clean(acc, Tail(rest))
             ELSE IF h = ".."
                  THEN Clean(IF acc = <<>> THEN <<>> ELSE SubSeq(acc, 1, Len(acc) - 1),
                             Tail(rest))
                  ELSE Clean(Append(acc, h), Tail(rest))

\* path.Join(base, elems...): base a cleaned absolute path, elems raw elements
Join(base, elems) == Clean(<<>>, base \o elems)

\* path.Dir of a cleaned absolute path
Dir(p) == IF p = <<>> THEN <<>> ELSE SubSeq(p, 1, Len(p) - 1)

RECURSIVE PathStr(_)
\* the string of a cleaned absolute path
PathStr(p) ==
    IF p = <<>> THEN "/"
    ELSE IF Len(p) = 1 THEN "/" \o p[1]
    ELSE PathStr(SubSeq(p, 1, Len(p) - 1)) \o "/" \o p[Len(p)]

----------------------------------------------------------------------------
\* The platform: what the standard library calls of the package do.

\* Body applied to the value of v: v is evaluated once, before Body uses it,
\* as a Go statement x := v does.
Bind(v, Body(_)) == CHOOSE r \in {Body(x) : x \in {v}} : TRUE

ExecutablePath == <<"bin", "app">>     \* what os.Executable() reports
UserConfigDir  == <<"cfg">>            \* what os.UserConfigDir() reports

Nil              == "nil"
ErrExecutable    == "os.Executable failed"
ErrUserConfigDir == "os.UserConfigDir failed"

\* *os.PathError: the failing operation and the errno
PathError(op, errno) == op \o " " \o errno

ModeDirPerm == 0      \* os.ModeDir.Perm(): os.ModeDir carries no permission bits

\* The file system as a value.
FS(d, f) == [dirs |-> d, files |-> f]

IsDir(F, p)  == p \in DOMAIN F.dirs
IsFile(F, p) == p \in DOMAIN F.files

\* owner permission bits of a directory: 4 read, 2 write, 1 search
CanSearch(F, p, enforced) == ~enforced \/ F.dirs[p] \in {1, 3, 5, 7}
CanWrite(F, p, enforced)  == ~enforced \/ F.dirs[p] \in {2, 3, 6, 7}
CanRead(F, p, enforced)   == ~enforced \/ F.dirs[p] \in {4, 5, 6, 7}

RECURSIVE Walk(_, _, _, _)
\* resolve p from its first i segments on: Nil when p exists and can be reached
Walk(F, p, i, enforced) ==
    IF i = Len(p) THEN Nil
    ELSE IF IsFile(F, SubSeq(p, 1, i)) THEN "ENOTDIR"
    ELSE IF ~CanSearch(F, SubSeq(p, 1, i), enforced) THEN "EACCES"
    ELSE IF ~IsDir(F, SubSeq(p, 1, i + 1)) /\ ~IsFile(F, SubSeq(p, 1, i + 1))
         THEN "ENOENT"
    ELSE Walk(F, p, i + 1, enforced)

\* os.Stat / os.Lstat: the errno only
Stat(F, p, enforced) == Walk(F, p, 0, enforced)

RECURSIVE SumLen(_, _)
SumLen(f, S) ==
    IF S = {} THEN 0
    ELSE Bind(CHOOSE q \in S : TRUE, LAMBDA p : Len(f[p]) + SumLen(f, S \ {p}))

\* bytes in use
Used(F) == SumLen(F.files, DOMAIN F.files)

\* os.Open: read-only, never creates
Open(F, p, enforced) ==
    Bind(Stat(F, p, enforced), LAMBDA e :
        IF e # Nil THEN PathError("open", e)
        ELSE IF IsDir(F, p) /\ ~CanRead(F, p, enforced) THEN PathError("open", "EACCES")
        ELSE Nil)

\* ioutil.ReadFile
ReadFile(F, p, enforced) ==
    Bind(Open(F, p, enforced), LAMBDA e :
        IF e # Nil THEN [out |-> <<>>, err |-> e]
        ELSE IF IsDir(F, p) THEN [out |-> <<>>, err |-> PathError("read", "EISDIR")]
        ELSE [out |-> F.files[p], err |-> Nil])

\* the errno of reaching the place of p to make an entry there: Nil if the
\* place is free, "file" if a regular file holds it, taken if a directory does
Place(F, p, enforced, taken) ==
    Bind(Stat(F, Dir(p), enforced), LAMBDA pe :
        IF p = <<>> THEN taken
        ELSE IF pe # Nil THEN pe
        ELSE IF IsFile(F, Dir(p)) THEN "ENOTDIR"
        ELSE IF ~CanSearch(F, Dir(p), enforced) THEN "EACCES"
        ELSE IF IsDir(F, p) THEN taken
        ELSE IF IsFile(F, p) THEN "file"
        ELSE IF ~CanWrite(F, Dir(p), enforced) THEN "EACCES"
        ELSE Nil)

\* the file system with the empty file p added
WithFile(F, p) ==
    FS(F.dirs, [q \in DOMAIN F.files \cup {p} |-> IF q = p THEN <<>> ELSE F.files[q]])

\* O_RDWR|O_CREATE without O_TRUNC: an existing file keeps its content
CreateKeep(F, p, enforced) ==
    Bind(Place(F, p, enforced, "EISDIR"), LAMBDA e :
        IF e = "file" THEN [F |-> F, err |-> Nil]
        ELSE IF e # Nil THEN [F |-> F, err |-> PathError("open", e)]
        ELSE [F |-> WithFile(F, p), err |-> Nil])

\* os.Create: O_RDWR|O_CREATE|O_TRUNC
Create(F, p, enforced) ==
    Bind(Place(F, p, enforced, "EISDIR"), LAMBDA e :
        IF e = "file" THEN [F |-> FS(F.dirs, [F.files EXCEPT ![p] = <<>>]), err |-> Nil]
        ELSE IF e # Nil THEN [F |-> F, err |-> PathError("open", e)]
        ELSE [F |-> WithFile(F, p), err |-> Nil])

\* (*os.File).Write at offset 0 of the open file p: the bytes that fit are
\* written over what the file holds; a short write reports ENOSPC
Write(F, p, data) ==
    Bind(DiskCapacity - Used(F), LAMBDA free :
    Bind(IF Len(data) <= Len(F.files[p]) + free THEN Len(data)
         ELSE Len(F.files[p]) + free, LAMBDA n :
        [F   |-> FS(F.dirs, [F.files EXCEPT
                     ![p] = SubSeq(data, 1, n) \o SubSeq(@, n + 1, Len(@))]),
         n   |-> n,
         err |-> IF n < Len(data) THEN PathError("write", "ENOSPC") ELSE Nil]))

\* os.Mkdir
Mkdir(F, p, perm, enforced) ==
    Bind(Place(F, p, enforced, "EEXIST"), LAMBDA e :
        IF e = "file" THEN [F |-> F, err |-> PathError("mkdir", "EEXIST")]
        ELSE IF e # Nil THEN [F |-> F, err |-> PathError("mkdir", e)]
        ELSE [F |-> FS([q \in DOMAIN F.dirs \cup {p} |->
                           IF q = p THEN perm ELSE F.dirs[q]], F.files),
              err |-> Nil])

RECURSIVE MkdirAll(_, _, _, _)
\* os.MkdirAll
MkdirAll(F, p, perm, enforced) ==
    IF Stat(F, p, enforced) = Nil
    THEN [F |-> F, err |-> IF IsDir(F, p) THEN Nil ELSE PathError("mkdir", "ENOTDIR")]
    ELSE Bind(IF Len(p) > 1 THEN MkdirAll(F, Dir(p), perm, enforced)
              ELSE [F |-> F, err |-> Nil], LAMBDA up :
         IF up.err # Nil THEN up
         ELSE Bind(Mkdir(up.F, p, perm, enforced), LAMBDA mk :
              IF mk.err = Nil THEN mk
              ELSE IF Stat(mk.F, p, enforced) = Nil /\ IsDir(mk.F, p)
                   THEN [F |-> mk.F, err |-> Nil]
              ELSE mk))

----------------------------------------------------------------------------
\* Package goappfsx.

\* goappfsx.go:32-38
ExeDir ==
    IF ~exeOK THEN [dir |-> <<>>, path |-> "", err |-> ErrExecutable]
    ELSE [dir |-> Dir(ExecutablePath), path |-> PathStr(Dir(ExecutablePath)), err |-> Nil]

\* goappfsx.go:43-54
OpenFileExeDir(F, pathSupplement) ==
    Bind(ExeDir, LAMBDA ed :
        IF ed.err # Nil THEN [fyle |-> FALSE, err |-> ed.err, dir |-> <<>>, fp |-> <<>>]
        ELSE
    Bind(Join(ed.dir, SplitSlash(pathSupplement)), LAMBDA fp :
    Bind(Open(F, fp, permEnforced), LAMBDA err :
        IF err # Nil THEN [fyle |-> FALSE, err |-> err, dir |-> ed.dir, fp |-> fp]
        ELSE [fyle |-> TRUE, err |-> err, dir |-> ed.dir, fp |-> fp])))

\* goappfsx.go:59-69
ReadFileExeDir(F, pathSupplement) ==
    Bind(ExeDir, LAMBDA ed :
        IF ed.err # Nil THEN [out |-> <<>>, err |-> ed.err, dir |-> <<>>, fp |-> <<>>]
        ELSE
    Bind(Join(ed.dir, SplitSlash(pathSupplement)), LAMBDA fp :
    Bind(ReadFile(F, fp, permEnforced), LAMBDA rd :
        IF rd.err # Nil THEN [out |-> <<>>, err |-> rd.err, dir |-> ed.dir, fp |-> fp]
        ELSE [out |-> rd.out, err |-> Nil, dir |-> ed.dir, fp |-> fp])))

\* WriteFileExeDir reporting no bytes whenever the write fails
WriteFileExeDirZero(F, pathSupplement, data) ==
    Bind(ExeDir, LAMBDA ed :
        IF ed.err # Nil
        THEN [F |-> F, n |-> 0, err |-> ed.err, dir |-> <<>>, fp |-> <<>>, held |-> 0]
        ELSE
    Bind(Join(ed.dir, SplitSlash(pathSupplement)), LAMBDA fp :
    Bind(Create(F, fp, permEnforced), LAMBDA fyle :
        IF fyle.err # Nil
        THEN [F |-> F, n |-> 0, err |-> fyle.err, dir |-> ed.dir, fp |-> fp, held |-> 0]
        ELSE
    Bind(Write(fyle.F, fp, data), LAMBDA wr :
        [F |-> wr.F, n |-> IF wr.err # Nil THEN 0 ELSE wr.n, err |-> wr.err,
         dir |-> ed.dir, fp |-> fp, held |-> 1 - 1]))))

\* goappfsx.go:75-86.  held: the handles this call opened and has not closed
\* when it returns; the deferred Close runs on every return that follows it.
WriteFileExeDir(F, pathSupplement, data) ==
    Bind(ExeDir, LAMBDA ed :
        IF ed.err # Nil
        THEN [F |-> F, n |-> 0, err |-> ed.err, dir |-> <<>>, fp |-> <<>>, held |-> 0]
        ELSE
    Bind(Join(ed.dir, SplitSlash(pathSupplement)), LAMBDA fp :
    Bind(Create(F, fp, permEnforced), LAMBDA fyle :
        IF fyle.err # Nil
        THEN [F |-> F, n |-> 0, err |-> fyle.err, dir |-> ed.dir, fp |-> fp, held |-> 0]
        ELSE
    Bind(Write(fyle.F, fp, data), LAMBDA wr :
        [F |-> wr.F, n |-> wr.n, err |-> wr.err, dir |-> ed.dir, fp |-> fp,
         held |-> 1 - 1]))))

\* the program name cut at its first dot
ProgNameFirstDot ==
    Bind(Base(argv0), LAMBDA progName :
    Bind({i \in 1..Len(progName) : progName[i] = "."}, LAMBDA dots :
        IF dots = {} THEN progName
        ELSE SubSeq(progName, 1, (CHOOSE i \in dots : \A j \in dots : i <= j) - 1)))

\* goappfsx.go:93-95
ProgName ==
    Bind(Base(argv0), LAMBDA progName :
    Bind(Ext(progName), LAMBDA progExt :
        SubSeq(progName, 1, Len(progName) - Len(progExt))))

\* AppDataDir calling os.Mkdir and returning its error
AppDataDirMkdir(F, category) ==
    IF ~cfgOK
    THEN [F |-> F, dir |-> <<>>, path |-> "", err |-> ErrUserConfigDir, prog |-> ProgName,
          mkErr |-> Nil]
    ELSE
    Bind(ProgName, LAMBDA progName :
    Bind(Join(UserConfigDir, <<String(category)>> \o SplitSlash(progName)), LAMBDA appDir :
    Bind(Mkdir(F, appDir, ModeDirPerm, permEnforced), LAMBDA mk :
        IF mk.err # Nil
        THEN [F |-> mk.F, dir |-> <<>>, path |-> "", err |-> mk.err, prog |-> progName,
              mkErr |-> mk.err]
        ELSE [F |-> mk.F, dir |-> appDir, path |-> PathStr(appDir), err |-> Nil,
              prog |-> progName, mkErr |-> mk.err])))

\* AppDataDir returning the error of os.MkdirAll
AppDataDirChecked(F, category) ==
    IF ~cfgOK
    THEN [F |-> F, dir |-> <<>>, path |-> "", err |-> ErrUserConfigDir, prog |-> ProgName,
          mkErr |-> Nil]
    ELSE
    Bind(ProgName, LAMBDA progName :
    Bind(Join(UserConfigDir, <<String(category)>> \o SplitSlash(progName)), LAMBDA appDir :
    Bind(MkdirAll(F, appDir, ModeDirPerm, permEnforced), LAMBDA mk :
        IF mk.err # Nil
        THEN [F |-> mk.F, dir |-> <<>>, path |-> "", err |-> mk.err, prog |-> progName,
              mkErr |-> mk.err]
        ELSE [F |-> mk.F, dir |-> appDir, path |-> PathStr(appDir), err |-> Nil,
              prog |-> progName, mkErr |-> mk.err])))

\* goappfsx.go:92-104.  prog is the program name of lines 93-95; mkErr is the
\* error of os.MkdirAll, which the code drops.
AppDataDir(F, category) ==
    IF ~cfgOK
    THEN [F |-> F, dir |-> <<>>, path |-> "", err |-> ErrUserConfigDir, prog |-> ProgName,
          mkErr |-> Nil]
    ELSE
    Bind(ProgName, LAMBDA progName :
    Bind(Join(UserConfigDir, <<String(category)>> \o SplitSlash(progName)), LAMBDA appDir :
    Bind(MkdirAll(F, appDir, ModeDirPerm, permEnforced), LAMBDA mk :
        [F |-> mk.F, dir |-> appDir, path |-> PathStr(appDir), err |-> Nil,
         prog |-> progName, mkErr |-> mk.err])))

\* goappfsx.go:112-123
OpenFileAppDataDir(F, pathSupplement, category) ==
    Bind(AppDataDir(F, category), LAMBDA add :
        IF add.err # Nil
        THEN [F |-> add.F, fyle |-> FALSE, err |-> add.err, dir |-> <<>>, fp |-> <<>>,
              mkErr |-> add.mkErr]
        ELSE
    Bind(Join(add.dir, SplitSlash(pathSupplement)), LAMBDA fp :
    Bind(Open(add.F, fp, permEnforced), LAMBDA err :
        IF err # Nil
        THEN [F |-> add.F, fyle |-> FALSE, err |-> err, dir |-> add.dir, fp |-> fp,
              mkErr |-> add.mkErr]
        ELSE [F |-> add.F, fyle |-> TRUE, err |-> err, dir |-> add.dir, fp |-> fp,
              mkErr |-> add.mkErr])))

\* goappfsx.go:131-141
ReadFileAppDataDir(F, pathSupplement, category) ==
    Bind(AppDataDir(F, category), LAMBDA add :
        IF add.err # Nil
        THEN [F |-> add.F, out |-> <<>>, err |-> add.err, dir |-> <<>>, fp |-> <<>>,
              mkErr |-> add.mkErr]
        ELSE
    Bind(Join(add.dir, SplitSlash(pathSupplement)), LAMBDA fp :
    Bind(ReadFile(add.F, fp, permEnforced), LAMBDA rd :
        IF rd.err # Nil
        THEN [F |-> add.F, out |-> <<>>, err |-> rd.err, dir |-> add.dir, fp |-> fp,
              mkErr |-> add.mkErr]
        ELSE [F |-> add.F, out |-> rd.out, err |-> Nil, dir |-> add.dir, fp |-> fp,
              mkErr |-> add.mkErr])))

\* WriteFileAppDataDir going on after AppDataDir failed
WriteFileAppDataDirUnchecked(F, pathSupplement, category, data) ==
    Bind(AppDataDir(F, category), LAMBDA add :
    Bind(Join(add.dir, SplitSlash(pathSupplement)), LAMBDA fp :
    Bind(Create(add.F, fp, permEnforced), LAMBDA fyle :
        IF fyle.err # Nil
        THEN [F |-> add.F, n |-> 0, err |-> fyle.err, dir |-> add.dir, fp |-> fp,
              held |-> 0, mkErr |-> add.mkErr]
        ELSE
    Bind(Write(fyle.F, fp, data), LAMBDA wr :
        [F |-> wr.F, n |-> wr.n, err |-> wr.err, dir |-> add.dir, fp |-> fp,
         held |-> 1 - 1, mkErr |-> add.mkErr]))))

\* WriteFileAppDataDir closing the file only after a complete write
WriteFileAppDataDirLeaky(F, pathSupplement, category, data) ==
    Bind(AppDataDir(F, category), LAMBDA add :
        IF add.err # Nil
        THEN [F |-> add.F, n |-> 0, err |-> add.err, dir |-> <<>>, fp |-> <<>>,
              held |-> 0, mkErr |-> add.mkErr]
        ELSE
    Bind(Join(add.dir, SplitSlash(pathSupplement)), LAMBDA fp :
    Bind(Create(add.F, fp, permEnforced), LAMBDA fyle :
        IF fyle.err # Nil
        THEN [F |-> add.F, n |-> 0, err |-> fyle.err, dir |-> add.dir, fp |-> fp,
              held |-> 0, mkErr |-> add.mkErr]
        ELSE
    Bind(Write(fyle.F, fp, data), LAMBDA wr :
        [F |-> wr.F, n |-> wr.n, err |-> wr.err, dir |-> add.dir, fp |-> fp,
         held |-> IF wr.err # Nil THEN 1 ELSE 1 - 1, mkErr |-> add.mkErr]))))

\* goappfsx.go:147-158
WriteFileAppDataDir(F, pathSupplement, category, data) ==
    Bind(AppDataDir(F, category), LAMBDA add :
        IF add.err # Nil
        THEN [F |-> add.F, n |-> 0, err |-> add.err, dir |-> <<>>, fp |-> <<>>,
              held |-> 0, mkErr |-> add.mkErr]
        ELSE
    Bind(Join(add.dir, SplitSlash(pathSupplement)), LAMBDA fp :
    Bind(Create(add.F, fp, permEnforced), LAMBDA fyle :
        IF fyle.err # Nil
        THEN [F |-> add.F, n |-> 0, err |-> fyle.err, dir |-> add.dir, fp |-> fp,
              held |-> 0, mkErr |-> add.mkErr]
        ELSE
    Bind(Write(fyle.F, fp, data), LAMBDA wr :
        [F |-> wr.F, n |-> wr.n, err |-> wr.err, dir |-> add.dir, fp |-> fp,
         held |-> 1 - 1, mkErr |-> add.mkErr]))))

----------------------------------------------------------------------------
\* The calls a program makes, one action per exported function.  last keeps
\* the arguments of the call and what it returned: path (a directory string),
\* fyle (a file was returned), out (bytes), n (a count), err; and besides what
\* the call worked on: dir (the base directory), fp (the joined path), prog
\* (the derived program name), mkErr (the dropped error of os.MkdirAll), old
\* (what the file at fp held when the call began).

NoCat == Len(categories)       \* the category field of a call that takes none

Call(op, cat, frag, data) ==
    [op |-> op, cat |-> cat, frag |-> frag, data |-> data,
     path |-> "", fyle |-> FALSE, out |-> <<>>, n |-> 0, err |-> Nil,
     dir |-> <<>>, fp |-> <<>>, prog |-> <<>>, mkErr |-> Nil, old |-> <<>>]

Here == FS(dirs, files)

Held(p) == IF p \in DOMAIN files THEN files[p] ELSE <<>>

ExeDirCall ==
    \E r \in {ExeDir} :
        /\ last' = [Call("ExeDir", NoCat, <<>>, <<>>) EXCEPT
                        !.path = r.path, !.dir = r.dir, !.err = r.err]
        /\ UNCHANGED <<dirs, files, handles, env>>

OpenFileExeDirCall ==
    \E ps \in Fragments :
        \E r \in {OpenFileExeDir(Here, ps)} :
            /\ last' = [Call("OpenFileExeDir", NoCat, ps, <<>>) EXCEPT
                            !.dir = r.dir, !.fp = r.fp, !.fyle = r.fyle, !.err = r.err]
            /\ UNCHANGED <<dirs, files, handles, env>>

ReadFileExeDirCall ==
    \E ps \in Fragments :
        \E r \in {ReadFileExeDir(Here, ps)} :
            /\ last' = [Call("ReadFileExeDir", NoCat, ps, <<>>) EXCEPT
                            !.dir = r.dir, !.fp = r.fp, !.out = r.out, !.err = r.err]
            /\ UNCHANGED <<dirs, files, handles, env>>

WriteFileExeDirCall ==
    \E ps \in Fragments, data \in Data :
        \E r \in {WriteFileExeDir(Here, ps, data)} :
            /\ last' = [Call("WriteFileExeDir", NoCat, ps, data) EXCEPT
                            !.dir = r.dir, !.fp = r.fp, !.n = r.n, !.err = r.err,
                            !.old = Held(r.fp)]
            /\ dirs' = r.F.dirs
            /\ files' = r.F.files
            /\ handles' = handles + r.held
            /\ UNCHANGED env

AppDataDirCall ==
    \E category \in cats :
        \E r \in {AppDataDir(Here, category)} :
            /\ last' = [Call("AppDataDir", category, <<>>, <<>>) EXCEPT
                            !.path = r.path, !.dir = r.dir, !.err = r.err,
                            !.prog = r.prog, !.mkErr = r.mkErr]
            /\ dirs' = r.F.dirs
            /\ files' = r.F.files
            /\ UNCHANGED <<handles, env>>

OpenFileAppDataDirCall ==
    \E ps \in Fragments, category \in cats :
        \E r \in {OpenFileAppDataDir(Here, ps, category)} :
            /\ last' = [Call("OpenFileAppDataDir", category, ps, <<>>) EXCEPT
                            !.dir = r.dir, !.fp = r.fp, !.fyle = r.fyle, !.err = r.err,
                            !.mkErr = r.mkErr]
            /\ dirs' = r.F.dirs
            /\ files' = r.F.files
            /\ UNCHANGED <<handles, env>>

ReadFileAppDataDirCall ==
    \E ps \in Fragments, category \in cats :
        \E r \in {ReadFileAppDataDir(Here, ps, category)} :
            /\ last' = [Call("ReadFileAppDataDir", category, ps, <<>>) EXCEPT
                            !.dir = r.dir, !.fp = r.fp, !.out = r.out, !.err = r.err,
                            !.mkErr = r.mkErr]
            /\ dirs' = r.F.dirs
            /\ files' = r.F.files
            /\ UNCHANGED <<handles, env>>

WriteFileAppDataDirCall ==
    \E ps \in Fragments, category \in cats, data \in Data :
        \E r \in {WriteFileAppDataDir(Here, ps, category, data)} :
            /\ last' = [Call("WriteFileAppDataDir", category, ps, data) EXCEPT
                            !.dir = r.dir, !.fp = r.fp, !.n = r.n, !.err = r.err,
                            !.mkErr = r.mkErr, !.old = Held(r.fp)]
            /\ dirs' = r.F.dirs
            /\ files' = r.F.files
            /\ handles' = handles + r.held
            /\ UNCHANGED env

----------------------------------------------------------------------------
\* Initial states.

Root    == <<>>
BinDir  == Dir(ExecutablePath)
AppDirs == {Join(UserConfigDir, <<String(c), "a">>) : c \in DataCategory}

Tree(S, perm) == [p \in S |-> perm]

\* the file systems a program may start in
InitialFileSystems ==
    LET top == Tree({Root}, 5)
    IN  { \* a fresh, writable installation
          FS(top @@ Tree({BinDir, UserConfigDir}, 7), <<>>),
          \* the executable and configuration directories are read-only
          FS(top @@ Tree({BinDir, UserConfigDir}, 5), <<>>),
          \* the application directories were set up beforehand
          FS(top @@ Tree({BinDir, UserConfigDir} \cup AppDirs
                             \cup {Dir(d) : d \in AppDirs}, 7),
             [p \in {Append(BinDir, "f")} |-> <<3>>]),
          \* regular files sit where directories should be
          FS(top @@ Tree({BinDir, UserConfigDir}, 7),
             [p \in {Append(UserConfigDir, "Local"), Append(UserConfigDir, "a")}
                 |-> <<>>]) }

\* the program names of Spec: app.ext with one-letter parts
MainArgv0 == {<<"a", ".", "a">>}

Init ==
    /\ \E F \in InitialFileSystems : dirs = F.dirs /\ files = F.files
    /\ handles = 0
    /\ last = Call("none", NoCat, <<>>, <<>>)
    /\ cats \in {{c} : c \in DataCategory}
    /\ argv0 \in MainArgv0
    /\ exeOK \in BOOLEAN
    /\ cfgOK \in BOOLEAN
    /\ permEnforced \in BOOLEAN

Next ==
    \/ ExeDirCall
    \/ OpenFileExeDirCall
    \/ ReadFileExeDirCall
    \/ WriteFileExeDirCall
    \/ AppDataDirCall
    \/ OpenFileAppDataDirCall
    \/ ReadFileAppDataDirCall
    \/ WriteFileAppDataDirCall

Spec == Init /\ [][Next]_vars

\* Every program name up to MaxNameLen characters, every category, directory
\* resolution only.
Names == UNION {[1..n -> Chars] : n \in 0..MaxNameLen}

InitPath ==
    /\ \E F \in InitialFileSystems : dirs = F.dirs /\ files = F.files
    /\ handles = 0
    /\ last = Call("none", NoCat, <<>>, <<>>)
    /\ cats = DataCategory
    /\ argv0 \in Names
    /\ exeOK = TRUE
    /\ cfgOK = TRUE
    /\ permEnforced \in BOOLEAN

NextPath == AppDataDirCall

SpecPath == InitPath /\ [][NextPath]_vars

----------------------------------------------------------------------------
\* What the claims speak of.

ReadOps    == {"ReadFileExeDir", "ReadFileAppDataDir"}
WriteOps   == {"WriteFileExeDir", "WriteFileAppDataDir"}
OpenOps    == {"OpenFileExeDir", "OpenFileAppDataDir"}
ExeFileOps == {"OpenFileExeDir", "ReadFileExeDir", "WriteFileExeDir"}
AppFileOps == {"OpenFileAppDataDir", "ReadFileAppDataDir", "WriteFileAppDataDir"}

\* the read_all that goes with a write_all
ReadOf(op) == IF op = "WriteFileExeDir" THEN "ReadFileExeDir" ELSE "ReadFileAppDataDir"

NotFound    == PathError("open", "ENOENT")
ShortWrite  == PathError("write", "ENOSPC")
OpenErrors  == {PathError("open", e) : e \in {"ENOENT", "EACCES", "ENOTDIR", "EISDIR"}}

\* every prefix of the path p is a directory
ExistsWithAncestors(p) == \A i \in 0..Len(p) : SubSeq(p, 1, i) \in DOMAIN dirs

\* the fragment names an entry below the base directory
Descends(frag) == \A i \in 1..Len(SplitSlash(frag)) : SplitSlash(frag)[i] \notin {"", ".", ".."}

\* the label the specification gives each category
Label(c) ==
    CASE c = None     -> ""
      [] c = Local    -> "Local"
      [] c = LocalLow -> "LocalLow"
      [] c = Roaming  -> "Roaming"

DotDot == <<".", ".">>

\* config_root / label / name as a directory string: an empty label adds no
\* segment, nor does a name that is empty, "." or "/"; the name ".." leads to
\* the parent
LayoutPath(c, name) ==
    IF name = DotDot
    THEN IF Label(c) = "" THEN "/" ELSE PathStr(UserConfigDir)
    ELSE PathStr(UserConfigDir)
            \o (IF Label(c) = "" THEN "" ELSE "/" \o Label(c))
            \o (IF name \in {<<>>, <<".">>, <<"/">>} THEN "" ELSE "/" \o Str(name))

\* s has a path component: a character that is no slash
HasComponent(s) == \E i \in 1..Len(s) : s[i] # "/"

\* c is the last path component of s: slash-free, followed by slashes only,
\* and preceded by a slash or by nothing
IsLastComponent(c, s) ==
    /\ c # <<>>
    /\ \A i \in 1..Len(c) : c[i] # "/"
    /\ \E k \in 0..Len(s) :
          /\ k + Len(c) <= Len(s)
          /\ SubSeq(s, k + 1, k + Len(c)) = c
          /\ \A i \in (k + Len(c) + 1)..Len(s) : s[i] = "/"
          /\ (k = 0 \/ s[k] = "/")

\* n is c without its last dot-delimited suffix
IsStem(n, c) ==
    IF \A i \in 1..Len(c) : c[i] # "." THEN n = c
    ELSE \E d \in 1..Len(c) :
            /\ c[d] = "."
            /\ \A i \in (d + 1)..Len(c) : c[i] # "."
            /\ n = SubSeq(c, 1, d - 1)

Substrings(s) == {SubSeq(s, i, j) : i \in 1..Len(s), j \in 1..Len(s)}

----------------------------------------------------------------------------
\* C1: a successful write_all leaves exactly the bytes written in the file,
\* whatever it held before, and a read_all of the same fragment and base that
\* follows a successful write_all succeeds and returns exactly those bytes.
C1_RoundTrip ==
    [][ /\ (last'.op \in WriteOps /\ last'.err = Nil)
            => /\ last'.fp \in DOMAIN files'
               /\ files'[last'.fp] = last'.data
               /\ last'.n = Len(last'.data)
        /\ (/\ last.op \in WriteOps /\ last.err = Nil
            /\ last'.op = ReadOf(last.op)
            /\ last'.cat = last.cat /\ last'.frag = last.frag)
            => /\ last'.err = Nil
               /\ last'.out = last.data ]_vars

\* C1 witness: a shorter write_all has replaced longer content; the file holds
\* the second write alone.
C1_Witness ==
    /\ last.op \in WriteOps
    /\ last.err = Nil
    /\ Len(last.old) > Len(last.data)
    /\ files[last.fp] = last.data

\* C2 (as claimed): open and read_all of a fragment that names nothing, under a
\* base directory that exists, fail with NotFound and leave the file absent.
C2_NotFound ==
    [][ (/\ last'.op \in OpenOps \cup ReadOps
         /\ last'.fp # <<>>
         /\ last'.dir \in DOMAIN dirs'
         /\ last'.fp \notin DOMAIN files \cup DOMAIN dirs')
        => /\ last'.err = NotFound
           /\ ~last'.fyle
           /\ last'.fp \notin DOMAIN files' ]_vars

\* C3: when the directory resolver fails, open, read_all and write_all return
\* the resolver's error, no handle, no bytes and a zero count, and leave the
\* file system and the open handles as they were.
C3_ResolverFirst ==
    [][ (\/ last'.op \in ExeFileOps /\ ~exeOK
         \/ last'.op \in AppFileOps /\ ~cfgOK)
        => /\ last'.err = (IF last'.op \in ExeFileOps THEN ErrExecutable
                           ELSE ErrUserConfigDir)
           /\ ~last'.fyle
           /\ last'.out = <<>>
           /\ last'.n = 0
           /\ dirs' = dirs
           /\ files' = files
           /\ handles' = handles ]_vars

\* C3 witness: a write_all has returned the error of the failed resolver.
C3_Witness ==
    /\ last.op = "WriteFileAppDataDir"
    /\ ~cfgOK
    /\ last.err = ErrUserConfigDir

\* C4 (as claimed): when app_data_directory returns a path and no error, the
\* directory at that path and all its ancestors exist.
C4_DirectoryExists ==
    (last.op = "AppDataDir" /\ last.err = Nil) => ExistsWithAncestors(last.dir)

\* C5: a second app_data_directory call for the same category, right after the
\* first, returns the same path and the same error status and leaves the file
\* system as the first call left it.
C5_Idempotent ==
    [][ (/\ last.op = "AppDataDir"
         /\ last'.op = "AppDataDir"
         /\ last'.cat = last.cat)
        => /\ last'.path = last.path
           /\ last'.err = last.err
           /\ dirs' = dirs
           /\ files' = files ]_vars

\* C5 witness: app_data_directory has returned a directory that now exists,
\* so the next call for that category finds it in place.
C5_Witness ==
    /\ last.op = "AppDataDir"
    /\ last.err = Nil
    /\ last.mkErr = Nil
    /\ last.dir \in DOMAIN dirs
    /\ last.dir # UserConfigDir

\* C6 (as claimed): the resolved path is config_root / label / base name with
\* the stated labels, and the four categories give four distinct directories.
C6_Layout ==
    (last.op = "AppDataDir" /\ last.err = Nil)
    => /\ last.path = LayoutPath(last.cat, last.prog)
       /\ \A c \in DataCategory \ {last.cat} : LayoutPath(c, last.prog) # last.path

\* C6 (amended): the resolved path is config_root / label / base name with the
\* stated labels, and the four categories give four distinct directories
\* unless the base name is "..".
C6_LayoutUnlessDotDot ==
    (last.op = "AppDataDir" /\ last.err = Nil)
    => /\ last.path = LayoutPath(last.cat, last.prog)
       /\ last.prog # DotDot
            => \A c \in DataCategory \ {last.cat} : LayoutPath(c, last.prog) # last.path

\* C6 witness: the category None has resolved to config_root / base name, the
\* empty label adding no segment.
C6_Witness ==
    /\ last.op = "AppDataDir"
    /\ last.cat = None
    /\ argv0 = <<"a", ".", "a">>
    /\ last.path = "/cfg/a"

\* C7: the program name app_data_directory derives is the last path component
\* of os.Args[0] without its last dot-delimited suffix, and it is the leaf of
\* the resolved directory whenever it is a proper directory name.
C7_BaseName ==
    (last.op = "AppDataDir" /\ HasComponent(argv0))
    => /\ \E c \in Substrings(argv0) :
             IsLastComponent(c, argv0) /\ IsStem(last.prog, c)
       /\ (last.err = Nil /\ last.prog \notin {<<>>, <<".">>, DotDot})
            => last.dir[Len(last.dir)] = Str(last.prog)

\* C7 witness: a name with two dots has lost only its final suffix.
C7_Witness ==
    /\ last.op = "AppDataDir"
    /\ argv0 = <<"a", ".", ".">>
    /\ last.prog = <<"a", ".">>
    /\ last.dir[Len(last.dir)] = "a."

C10_NoPartialWrite ==
    [][ (last'.op \in WriteOps /\ last'.err # Nil)
        => /\ files' = files
           /\ last'.n = 0 ]_vars

\* C10 (amended): when write_all fails before the write (resolver or create),
\* the files are as before and the count is 0; when the write itself fails,
\* the file holds exactly the first n bytes of the data, n the returned count,
\* less than the data's length, and every other file is as before.
C10_PartialWrite ==
    [][ (last'.op \in WriteOps /\ last'.err # Nil)
        => IF last'.err = ShortWrite
           THEN /\ last'.n < Len(last'.data)
                /\ files'[last'.fp] = SubSeq(last'.data, 1, last'.n)
                /\ \A q \in DOMAIN files \ {last'.fp} :
                       q \in DOMAIN files' /\ files'[q] = files[q]
           ELSE /\ files' = files
                /\ last'.n = 0 ]_vars

\* C10 witness: a failed write has replaced what the file held.
C10_Witness ==
    /\ last.op \in WriteOps
    /\ last.err = ShortWrite
    /\ last.old # <<>>
    /\ files[last.fp] # last.old

====
